---------------------------- MODULE Spec2Model ----------------------------
(***************************************************************************)
(* Model of src/config_comparison.py: the whitelist/device-output          *)
(* comparison engine (parse_whitelist_section, parse_output_section,       *)
(* compare_configurations, extract_hostname_from_output,                   *)
(* process_device_comparison), the compliance score of                     *)
(* create_excel_report, and the whitelist reader parse_whitelist_manual.   *)
(*                                                                         *)
(* Text is modelled as a sequence of one-character strings, so that        *)
(* str.lower, str.strip, str.split, str.replace, substring tests and the   *)
(* regular expressions of the code are computed, not assumed.              *)
(*                                                                         *)
(* A JSON value is a record [t |-> tag, v |-> payload]:                    *)
(*   "str"  : v is the text                                                *)
(*   "num"  : v is the text str() gives for the number                     *)
(*   "null" : v is <<>>                                                    *)
(*   "list" : v is the sequence of the items                               *)
(*   "dict" : v is the sequence of <<key, value>> pairs in insertion order *)
(* Dictionary keys and section names are plain strings.                    *)
(***************************************************************************)
EXTENDS Integers, Sequences, FiniteSets, TLC

(***************************************************************************)
(* Python str primitives                                                   *)
(***************************************************************************)

\* Characters str.strip() removes and \s matches.
IsSpace(c) == c \in {" ", "\t", "\n", "\r"}

UpperChars ==
    <<"A", "B", "C", "D", "E", "F", "G", "H", "I", "J", "K", "L", "M",
      "N", "O", "P", "Q", "R", "S", "T", "U", "V", "W", "X", "Y", "Z">>

LowerChars ==
    <<"a", "b", "c", "d", "e", "f", "g", "h", "i", "j", "k", "l", "m",
      "n", "o", "p", "q", "r", "s", "t", "u", "v", "w", "x", "y", "z">>

\* str.lower() on one character.
LowerChar(c) ==
    IF \E i \in 1..Len(UpperChars) : UpperChars[i] = c
    THEN LowerChars[CHOOSE i \in 1..Len(UpperChars) : UpperChars[i] = c]
    ELSE c

\* str.lower()
LowerStr(s) == [i \in 1..Len(s) |-> LowerChar(s[i])]

SetMin(S) == CHOOSE x \in S : \A y \in S : x <= y

SetMax(S) == CHOOSE x \in S : \A y \in S : y <= x

\* str.strip()
Strip(s) ==
    LET keep == {i \in 1..Len(s) : ~IsSpace(s[i])}
    IN  IF keep = {} THEN <<>> ELSE SubSeq(s, SetMin(keep), SetMax(keep))

\* s.strip(c) for a single character c
StripChar(s, c) ==
    LET keep == {i \in 1..Len(s) : s[i] # c}
    IN  IF keep = {} THEN <<>> ELSE SubSeq(s, SetMin(keep), SetMax(keep))

\* s.startswith(p)
StartsWith(s, p) == Len(p) <= Len(s) /\ SubSeq(s, 1, Len(p)) = p

\* s.endswith(p)
EndsWith(s, p) ==
    Len(p) <= Len(s) /\ SubSeq(s, Len(s) - Len(p) + 1, Len(s)) = p

\* p occurs in s at index i
OccursAt(s, p, i) == i + Len(p) - 1 <= Len(s) /\ SubSeq(s, i, i + Len(p) - 1) = p

\* p in s
Contains(s, p) == \E i \in 1..(Len(s) + 1) : OccursAt(s, p, i)

\* c in s, for one character
HasChar(s, c) == \E i \in 1..Len(s) : s[i] = c

RECURSIVE SplitFrom(_, _, _, _)
SplitFrom(s, sep, i, cur) ==
    IF i > Len(s) THEN <<cur>>
    ELSE IF s[i] = sep THEN <<cur>> \o SplitFrom(s, sep, i + 1, <<>>)
    ELSE SplitFrom(s, sep, i + 1, Append(cur, s[i]))

\* s.split(sep) for a one-character separator: "" splits into [""].
Split(s, sep) == SplitFrom(s, sep, 1, <<>>)

RECURSIVE ReplaceFrom(_, _, _, _)
ReplaceFrom(s, old, new, i) ==
    IF i > Len(s) THEN <<>>
    ELSE IF OccursAt(s, old, i) THEN new \o ReplaceFrom(s, old, new, i + Len(old))
    ELSE <<s[i]>> \o ReplaceFrom(s, old, new, i + 1)

\* s.replace(old, new), old not empty: leftmost, non-overlapping occurrences.
Replace(s, old, new) == ReplaceFrom(s, old, new, 1)

RECURSIVE JoinFrom(_, _, _)
JoinFrom(parts, sep, i) ==
    IF i > Len(parts) THEN <<>>
    ELSE IF i = Len(parts) THEN parts[i]
    ELSE parts[i] \o sep \o JoinFrom(parts, sep, i + 1)

\* sep.join(parts)
Join(parts, sep) == JoinFrom(parts, sep, 1)

RECURSIVE SelectIdx(_, _, _)
\* The subsequence of the indices i of s, in order, for which keep[i] holds.
SelectIdx(s, keep, i) ==
    IF i > Len(s) THEN <<>>
    ELSE (IF keep[i] THEN <<s[i]>> ELSE <<>>) \o SelectIdx(s, keep, i + 1)

RECURSIVE Flatten(_)
\* Concatenation of a sequence of sequences.
Flatten(ss) == IF ss = <<>> THEN <<>> ELSE Head(ss) \o Flatten(Tail(ss))

\* Sequences over S of length at most n.
BoundedSeq(S, n) == UNION {[1..k -> S] : k \in 0..n}

(***************************************************************************)
(* JSON values                                                             *)
(***************************************************************************)

JStr(s) == [t |-> "str", v |-> s]

JNum(s) == [t |-> "num", v |-> s]

JNull == [t |-> "null", v |-> <<>>]

JList(xs) == [t |-> "list", v |-> xs]

JDict(pairs) == [t |-> "dict", v |-> pairs]

\* key in d
HasKey(d, k) == \E i \in 1..Len(d.v) : d.v[i][1] = k

\* d[key]
Get(d, k) == d.v[CHOOSE i \in 1..Len(d.v) : d.v[i][1] = k][2]

\* Python truthiness of a JSON value: `if x`.
Truthy(x) ==
    CASE x.t = "null" -> FALSE
      [] x.t = "num"  -> x.v # <<"0">>
      [] OTHER        -> x.v # <<>>


\* str(x) for the JSON values the payloads hold (text, numbers, null).
PyStr(x) ==
    CASE x.t = "str"  -> x.v
      [] x.t = "num"  -> x.v
      [] x.t = "null" -> <<"N", "o", "n", "e">>

\* trim_whitespace(text): text.strip() for a str, str(text).strip() otherwise.
trim_whitespace(x) == Strip(PyStr(x))

(***************************************************************************)
(* Regular expressions (module re), for the patterns the code builds:      *)
(* literals, `.`, `\d`, `\S`, an escaped character, a character set        *)
(* `[...]`, each optionally followed by `+`.  The texts of the model hold  *)
(* none of the other metacharacters ( * ? ( ) { } | ^ $ - ).               *)
(***************************************************************************)

\* The index of the `]` that closes the character set opened at p[i]; a `]`
\* right after the `[` is a member of the set.  0 when the set never closes
\* (re.error: unterminated character set).
SetClose(p, i) ==
    LET ends == {j \in (i + 2)..Len(p) : p[j] = "]"}
    IN  IF ends = {} THEN 0 ELSE SetMin(ends)

\* The atom that starts at p[i] and the index after it; kind "bad" when the
\* pattern does not compile.
AtomAt(p, i) ==
    CASE p[i] = "\\" ->
           IF i + 1 > Len(p) THEN [kind |-> "bad", set |-> {}, next |-> i + 1]
           ELSE IF p[i + 1] = "d" THEN [kind |-> "digit", set |-> {}, next |-> i + 2]
           ELSE IF p[i + 1] = "S" THEN [kind |-> "nonspace", set |-> {}, next |-> i + 2]
           ELSE [kind |-> "set", set |-> {p[i + 1]}, next |-> i + 2]
      [] p[i] = "[" ->
           IF SetClose(p, i) = 0 THEN [kind |-> "bad", set |-> {}, next |-> i + 1]
           ELSE [kind |-> "set",
                 set  |-> {p[k] : k \in (i + 1)..(SetClose(p, i) - 1)},
                 next |-> SetClose(p, i) + 1]
      [] p[i] = "." -> [kind |-> "any", set |-> {}, next |-> i + 1]
      [] p[i] = "+" -> [kind |-> "bad", set |-> {}, next |-> i + 1]
      [] OTHER -> [kind |-> "set", set |-> {p[i]}, next |-> i + 1]

\* What ReCompile gives for a pattern re.compile rejects.
BadPattern == <<[kind |-> "bad", set |-> {}, plus |-> FALSE]>>

RECURSIVE ReCompileFrom(_, _)
\* The atoms of p[i..], each with its `+` flag, or BadPattern.
ReCompileFrom(p, i) ==
    IF i > Len(p) THEN <<>>
    ELSE LET a    == AtomAt(p, i)
             plus == a.next <= Len(p) /\ p[a.next] = "+"
             rest == ReCompileFrom(p, IF plus THEN a.next + 1 ELSE a.next)
         IN  IF a.kind = "bad" \/ rest = BadPattern
             THEN BadPattern
             ELSE <<[kind |-> a.kind, set |-> a.set, plus |-> plus]>> \o rest

\* re.compile(p)
ReCompile(p) == ReCompileFrom(p, 1)

Digits == {"0", "1", "2", "3", "4", "5", "6", "7", "8", "9"}

AtomMatches(a, c) ==
    CASE a.kind = "digit"    -> c \in Digits
      [] a.kind = "nonspace" -> ~IsSpace(c)
      [] a.kind = "any"      -> c # "\n"
      [] a.kind = "set"      -> c \in a.set

\* The positions (characters consumed) atom a can reach from position q.
AtomReach(a, s, q) ==
    IF a.plus
    THEN {r \in (q + 1)..Len(s) : \A k \in (q + 1)..r : AtomMatches(a, s[k])}
    ELSE IF q < Len(s) /\ AtomMatches(a, s[q + 1]) THEN {q + 1} ELSE {}

RECURSIVE ReRun(_, _, _, _)
\* The positions reachable after atoms[i..] from the positions P.
ReRun(atoms, s, i, P) ==
    IF i > Len(atoms) \/ P = {} THEN P
    ELSE ReRun(atoms, s, i + 1, UNION {AtomReach(atoms[i], s, q) : q \in P})

\* re.match(pattern, s) is not None, for a pattern that compiles.
ReMatch(atoms, s) == ReRun(atoms, s, 1, {0}) # {}

(***************************************************************************)
(* compare_configurations                                                  *)
(***************************************************************************)

PhAddress ==
    <<"[", "x", ".", "x", ".", "x", ".", "x", "]">>

ReAddress ==
    <<"\\", "d", "+", "\\", ".", "\\", "d", "+", "\\", ".", "\\", "d", "+", "\\", ".", "\\", "d", "+">>

PhCommunity ==
    <<"[", "c", "o", "m", "m", "u", "n", "i", "t", "y", " ", "s", "t", "r", "i", "n", "g", "]">>

PhUsername ==
    <<"[", "u", "s", "e", "r", "n", "a", "m", "e", "]">>

ReToken ==
    <<"\\", "S", "+">>

PhLocation ==
    <<"[", "b", "u", "i", "l", "d", "i", "n", "g", ",", " ", "s", "i", "t", "e", ",", " ", "c", "o", "u", "n", "t", "r", "y", "]">>

PhDescription ==
    <<"[", "d", "e", "s", "c", "r", "i", "p", "t", "i", "o", "n", "]">>

ReRest ==
    <<".", "+">>

\* skip_patterns
skip_patterns ==
    << <<"b", "u", "i", "l", "d", "i", "n", "g", " ", "c", "o", "n", "f", "i", "g", "u", "r", "a", "t", "i", "o", "n">>,
       <<"c", "u", "r", "r", "e", "n", "t", " ", "c", "o", "n", "f", "i", "g", "u", "r", "a", "t", "i", "o", "n">>,
       <<"v", "e", "r", "s", "i", "o", "n">>,
       <<"s", "e", "r", "v", "i", "c", "e", " ", "t", "i", "m", "e", "s", "t", "a", "m", "p", "s">> >>

MissingPrefix ==
    <<"m", "i", "s", "s", "i", "n", "g", " ", "c", "o", "n", "f", "i", "g", ":", " ">>

AdditionalPrefix ==
    <<"a", "d", "d", "i", "t", "i", "o", "n", "a", "l", " ", "c", "o", "n", "f", "i", "g", ":", " ">>

\* trim_whitespace(line.lower())
Normalize(line) == Strip(LowerStr(line))

\* '[' in line and ']' in line
HasBrackets(line) == HasChar(line, "[") /\ HasChar(line, "]")

\* f"missing config: {required_line}:{hostname}"
MissingFinding(required_line, hostname) ==
    MissingPrefix \o required_line \o <<":">> \o hostname

\* f"additional config: {current_line}:{hostname}"
AdditionalFinding(current_line, hostname) ==
    AdditionalPrefix \o current_line \o <<":">> \o hostname

\* IsMissing without the `continue` for placeholder lines: what the loop would
\* report if bracketed templates were compared like literal ones.
IsMissingNoSkip(required_line, output_normalized) ==
    \A i \in 1..Len(output_normalized) :
        output_normalized[i] # Normalize(required_line)

\* Whether the loop over whitelist_config appends a finding for required_line.
IsMissing(required_line, output_normalized) ==
    LET required_normalized == Normalize(required_line)
    IN  /\ ~HasBrackets(required_normalized)
        /\ \A i \in 1..Len(output_normalized) :
              output_normalized[i] # required_normalized

\* missing_configs after the first loop.
MissingConfigs(output_normalized, whitelist_config, hostname) ==
    LET found == [i \in 1..Len(whitelist_config) |->
                     MissingFinding(whitelist_config[i], hostname)]
        keep  == [i \in 1..Len(whitelist_config) |->
                     IsMissing(whitelist_config[i], output_normalized)]
    IN  SelectIdx(found, keep, 1)

\* IsBoilerplate with startswith in place of `in`.
IsBoilerplatePrefix(current_normalized) ==
    \E i \in 1..Len(skip_patterns) : StartsWith(current_normalized, skip_patterns[i])

\* any(pattern in current_normalized for pattern in skip_patterns)
IsBoilerplate(current_normalized) ==
    \E i \in 1..Len(skip_patterns) : Contains(current_normalized, skip_patterns[i])

\* The pattern built from one whitelist line by the five replacements.
PlaceholderPattern(whitelist_line) ==
    Replace(Replace(Replace(Replace(Replace(whitelist_line,
        PhAddress, ReAddress),
        PhCommunity, ReToken),
        PhUsername, ReToken),
        PhLocation, ReRest),
        PhDescription, ReRest)

\* PatternAccepts with re.fullmatch in place of re.match.
PatternAcceptsFull(whitelist_line, current_normalized) ==
    /\ HasBrackets(whitelist_line)
    /\ LET atoms == ReCompile(PlaceholderPattern(whitelist_line))
       IN  /\ atoms # BadPattern
           /\ Len(current_normalized) \in ReRun(atoms, current_normalized, 1, {0})

\* Whether whitelist_line is tried as a pattern and matches current_normalized;
\* a pattern that does not compile is skipped by the bare except.
PatternAccepts(whitelist_line, current_normalized) ==
    /\ HasBrackets(whitelist_line)
    /\ LET atoms == ReCompile(PlaceholderPattern(whitelist_line))
       IN  atoms # BadPattern /\ ReMatch(atoms, current_normalized)

\* is_dynamic after the loop over whitelist_normalized.
IsDynamic(current_normalized, whitelist_normalized) ==
    \E i \in 1..Len(whitelist_normalized) :
        PatternAccepts(whitelist_normalized[i], current_normalized)

\* Whether the loop over output_config appends a finding for current_line.
IsAdditional(current_line, whitelist_normalized) ==
    LET current_normalized == Normalize(current_line)
    IN  /\ ~IsBoilerplate(current_normalized)
        /\ \A i \in 1..Len(whitelist_normalized) :
              whitelist_normalized[i] # current_normalized
        /\ ~IsDynamic(current_normalized, whitelist_normalized)

\* additional_configs after the second loop.
AdditionalConfigs(output_config, whitelist_normalized, hostname) ==
    LET found == [i \in 1..Len(output_config) |->
                     AdditionalFinding(output_config[i], hostname)]
        keep  == [i \in 1..Len(output_config) |->
                     IsAdditional(output_config[i], whitelist_normalized)]
    IN  SelectIdx(found, keep, 1)

\* compare_configurations(output_config, whitelist_config, hostname, _).
\* `raised` stands for an exception raised inside the try body: the handler
\* returns [], [].
compare_configurations(output_config, whitelist_config, hostname, raised) ==
    IF raised THEN [missing |-> <<>>, additional |-> <<>>]
    ELSE LET output_normalized ==
                 [i \in 1..Len(output_config) |-> Normalize(output_config[i])]
             whitelist_normalized ==
                 [i \in 1..Len(whitelist_config) |-> Normalize(whitelist_config[i])]
         IN  [missing    |-> MissingConfigs(output_normalized, whitelist_config, hostname),
              additional |-> AdditionalConfigs(output_config, whitelist_normalized, hostname)]

(***************************************************************************)
(* parse_whitelist_section                                                 *)
(***************************************************************************)

\* The lines a must_include string gives: split on line breaks, trimmed,
\* comment lines skipped, quote characters stripped.
MustIncludeText(must_include) ==
    LET lines   == Split(must_include, "\n")
        trimmed == [i \in 1..Len(lines) |-> Strip(lines[i])]
        cleaned == [i \in 1..Len(lines) |->
                       StripChar(StripChar(trimmed[i], "\""), "'")]
        keep    == [i \in 1..Len(lines) |->
                       /\ trimmed[i] # <<>>
                       /\ ~StartsWith(trimmed[i], <<"#">>)
                       /\ cleaned[i] # <<>>]
    IN  SelectIdx(cleaned, keep, 1)

\* The lines a must_include list gives: the truthy items, trimmed.
MustIncludeList(must_include) ==
    LET trimmed == [i \in 1..Len(must_include) |->
                       IF Truthy(must_include[i])
                       THEN trim_whitespace(must_include[i]) ELSE <<>>]
        keep    == [i \in 1..Len(must_include) |-> trimmed[i] # <<>>]
    IN  SelectIdx(trimmed, keep, 1)

\* parse_whitelist_section(section_data); `raised` stands for an exception
\* raised inside the try body: the handler returns [].
parse_whitelist_section(section_data, raised) ==
    IF raised THEN <<>>
    ELSE IF section_data.t = "dict" /\ HasKey(section_data, "must_include")
    THEN LET must_include == Get(section_data, "must_include")
         IN  CASE must_include.t = "list" -> MustIncludeList(must_include.v)
               [] must_include.t = "str"  -> MustIncludeText(must_include.v)
               [] OTHER -> <<>>
    ELSE <<>>

(***************************************************************************)
(* parse_output_section                                                    *)
(***************************************************************************)

\* KeepLine without the test for '!'.
KeepLineAnyStart(line) == line # <<>>

\* line and not line.startswith('!')
KeepLine(line) == line # <<>> /\ ~StartsWith(line, <<"!">>)

\* The trimmed lines among raw that are kept, in order.
KeptLines(raw) ==
    LET trimmed == [i \in 1..Len(raw) |-> Strip(raw[i])]
        keep    == [i \in 1..Len(raw) |-> KeepLine(trimmed[i])]
    IN  SelectIdx(trimmed, keep, 1)

\* The lines of one group of stdout_lines (nothing when it is not a list).
GroupLines(line_group) ==
    IF line_group.t = "list"
    THEN KeptLines([i \in 1..Len(line_group.v) |-> PyStr(line_group.v[i])])
    ELSE <<>>

\* The lines of one item of stdout (nothing when it is not a str).
StdoutItemLines(item) ==
    IF item.t = "str" THEN KeptLines(Split(item.v, "\n")) ELSE <<>>

\* The branch taken for the VTY envelope.
VtyLines(section_data) ==
    IF HasKey(section_data, "stdout_lines")
    THEN LET stdout_lines == Get(section_data, "stdout_lines")
         IN  IF stdout_lines.t = "list" /\ stdout_lines.v # <<>>
             THEN Flatten([i \in 1..Len(stdout_lines.v) |->
                              GroupLines(stdout_lines.v[i])])
             ELSE <<>>
    ELSE IF HasKey(section_data, "stdout")
    THEN LET stdout == Get(section_data, "stdout")
         IN  IF stdout.t = "list" /\ stdout.v # <<>>
             THEN Flatten([i \in 1..Len(stdout.v) |-> StdoutItemLines(stdout.v[i])])
             ELSE <<>>
    ELSE <<>>

\* ' '.join([str(x) for x in item if x])
JoinNested(item) ==
    LET keep == [i \in 1..Len(item) |-> Truthy(item[i])]
        strs == [i \in 1..Len(item) |-> IF keep[i] THEN PyStr(item[i]) ELSE <<>>]
    IN  Join(SelectIdx(strs, keep, 1), <<" ">>)

\* The lines one item of a list payload gives.
ListItemLines(item) ==
    CASE item.t = "str"  -> KeptLines(<<item.v>>)
      [] item.t = "list" -> KeptLines(<<JoinNested(item.v)>>)
      [] OTHER -> <<>>

\* parse_output_section(section_data, section_name); `raised` stands for an
\* exception raised inside the try body: the handler returns [].
parse_output_section(section_data, section_name, raised) ==
    IF raised THEN <<>>
    ELSE IF section_name = "vty" /\ section_data.t = "dict"
    THEN VtyLines(section_data)
    ELSE IF section_data.t = "list"
    THEN Flatten([i \in 1..Len(section_data.v) |-> ListItemLines(section_data.v[i])])
    ELSE IF section_data.t = "str"
    THEN KeptLines(Split(section_data.v, "\n"))
    ELSE <<>>

(***************************************************************************)
(* extract_hostname_from_output                                            *)
(***************************************************************************)

HostnameWord ==
    <<"h", "o", "s", "t", "n", "a", "m", "e">>

UnknownDevice ==
    <<"U", "n", "k", "n", "o", "w", "n", "-", "D", "e", "v", "i", "c", "e">>

\* Whether hostname\s+(\S+) matches, ignoring case, with `hostname` at index i.
HostnameAt(line, i) ==
    /\ OccursAt(LowerStr(line), HostnameWord, i)
    /\ \E k \in (i + Len(HostnameWord) + 1)..Len(line) :
          /\ ~IsSpace(line[k])
          /\ \A j \in (i + Len(HostnameWord))..(k - 1) : IsSpace(line[j])

\* re.search(r'hostname\s+(\S+)', line, re.IGNORECASE) finds a match.
HostnameFound(line) == \E i \in 1..Len(line) : HostnameAt(line, i)

\* match.group(1) of the leftmost match: the run of non-space characters
\* after the white space that follows `hostname`.
HostnameToken(line) ==
    LET i     == SetMin({j \in 1..Len(line) : HostnameAt(line, j)})
        first == SetMin({k \in (i + Len(HostnameWord) + 1)..Len(line) : ~IsSpace(line[k])})
        last  == SetMax({k \in first..Len(line) :
                            \A j \in first..k : ~IsSpace(line[j])})
    IN  SubSeq(line, first, last)

\* FirstHostname without the `return` at the first match: the token of the
\* last matching line.
LastHostname(lines, i) ==
    LET hits == {j \in i..Len(lines) : HostnameFound(lines[j])}
    IN  IF hits = {} THEN <<>> ELSE HostnameToken(lines[SetMax(hits)])

RECURSIVE FirstHostname(_, _)
\* The token of the first line of lines, from index i on, that matches;
\* <<>> when no line matches (a token is never empty).
FirstHostname(lines, i) ==
    IF i > Len(lines) THEN <<>>
    ELSE IF HostnameFound(lines[i]) THEN HostnameToken(lines[i])
    ELSE FirstHostname(lines, i + 1)

\* The text lines the version loop looks at: the str items of the list.
VersionLines(data) ==
    IF HasKey(data, "version") /\ Get(data, "version").t = "list"
    THEN LET items == Get(data, "version").v
         IN  SelectIdx([i \in 1..Len(items) |-> items[i].v],
                       [i \in 1..Len(items) |-> items[i].t = "str"], 1)
    ELSE <<>>

\* The lines the run_config loop looks at.
RunConfigLines(data) ==
    IF HasKey(data, "run_config") /\ Get(data, "run_config").t = "str"
    THEN Split(Get(data, "run_config").v, "\n")
    ELSE <<>>

\* extract_hostname_from_output(output_data).  A `data` that is no mapping
\* ends in the handler (or finds nothing), which returns the default too.
extract_hostname_from_output(output_data) ==
    IF output_data.t = "dict" /\ HasKey(output_data, "data")
       /\ Get(output_data, "data").t = "dict"
    THEN LET data        == Get(output_data, "data")
             fromVersion == FirstHostname(VersionLines(data), 1)
             fromRun     == FirstHostname(RunConfigLines(data), 1)
         IN  IF fromVersion # <<>> THEN fromVersion
             ELSE IF fromRun # <<>> THEN fromRun
             ELSE UnknownDevice
    ELSE UnknownDevice

(***************************************************************************)
(* process_device_comparison: one iteration of the loop over the whitelist *)
(***************************************************************************)

\* section_mapping.get(section_name, section_name)
section_mapping(section_name) ==
    CASE section_name = "vty"               -> "vty"
      [] section_name = "snmp_Run"          -> "snmp"
      [] section_name = "snmp_run"          -> "snmp"
      [] section_name = "dhcp"              -> "dhcp"
      [] section_name = "tacacs"            -> "TACACS"
      [] section_name = "vlan"              -> "vlan"
      [] section_name = "logging"           -> "Log_server"
      [] section_name = "mtu"               -> "mtu"
      [] section_name = "vtyaccess_acl"     -> "vty_ACL"
      [] section_name = "snmp_ro_acl"       -> "snmp_ACL"
      [] section_name = "source_interface"  -> "run_config"
      [] section_name = "ntp"               -> "ntp"
      [] section_name = "interface_section" -> "run_config"
      [] section_name = "version"           -> "version"
      [] section_name = "license"           -> "License_status"
      [] section_name = "clock_detail"      -> "clock"
      [] OTHER -> section_name

\* key.lower(), for the section names and keys of the model.
KeyLower(key) ==
    CASE key = "VTY"            -> "vty"
      [] key = "NTP"            -> "ntp"
      [] key = "TACACS"         -> "tacacs"
      [] key = "snmp_Run"       -> "snmp_run"
      [] key = "Log_server"     -> "log_server"
      [] key = "vty_ACL"        -> "vty_acl"
      [] key = "snmp_ACL"       -> "snmp_acl"
      [] key = "License_status" -> "license_status"
      [] OTHER -> key

\* The index in device_data of the entry the lookup resolves to, 0 when
\* there is none: the mapped key itself, else the first key equal to it
\* ignoring case.
ResolveIndex(device_data, mapped_section) ==
    IF HasKey(device_data, mapped_section)
    THEN CHOOSE i \in 1..Len(device_data.v) : device_data.v[i][1] = mapped_section
    ELSE LET hits == {i \in 1..Len(device_data.v) :
                         KeyLower(device_data.v[i][1]) = KeyLower(mapped_section)}
         IN  IF hits = {} THEN 0 ELSE SetMin(hits)

\* IsSkipped without the `continue`: every section is compared.
IsSkippedNever(required_configs) == FALSE

\* `if not required_configs: ... continue`
IsSkipped(required_configs) == required_configs = <<>>

\* The points of one iteration where an exception may be raised.
FaultPoints == {"none", "whitelist", "route", "parse", "compare"}

\* "OK" if not missing_configs and not additional_configs else "to_check"
SectionStatus(missing_configs, additional_configs) ==
    IF missing_configs = <<>> /\ additional_configs = <<>> THEN "OK" ELSE "to_check"

\* The row the section's except handler appends.
ErrorRow(section_name, hostname) ==
    [section |-> section_name, hostname |-> hostname, status |-> "error",
     missing_count |-> 0, additional_count |-> 0]

\* The row the try body appends.
SummaryRow(section_name, hostname, missing_configs, additional_configs) ==
    [section |-> section_name, hostname |-> hostname,
     status |-> SectionStatus(missing_configs, additional_configs),
     missing_count |-> Len(missing_configs),
     additional_count |-> Len(additional_configs)]

\* One iteration of the loop, for an exception raised at `fault` (or none):
\* what it appends to summary_data (rows) and to issues_list (issues), with
\* the intermediate values it computed.  A device_data that is no mapping
\* makes the lookup raise.
\*   outcome "skipped": no templates, `continue`
\*   outcome "error"  : the section's except handler ran
\*   outcome "row"    : the try body ran to its end
SectionStep(section_name, whitelist_section, device_data, hostname, fault) ==
    LET required_configs == parse_whitelist_section(whitelist_section, fault = "whitelist")
        blank == [outcome |-> "skipped", fault |-> fault, section |-> section_name,
                  required |-> required_configs, resolved |-> "", called |-> FALSE,
                  payload |-> JNull, current |-> <<>>,
                  missing |-> <<>>, additional |-> <<>>,
                  rows |-> <<>>, issues |-> <<>>]
    IN  IF IsSkipped(required_configs) THEN blank
        ELSE IF fault = "route" \/ device_data.t # "dict"
        THEN [blank EXCEPT !.outcome = "error", !.fault = "route",
                           !.rows = <<ErrorRow(section_name, hostname)>>]
        ELSE LET at == ResolveIndex(device_data, section_mapping(section_name))
                 output_section == IF at = 0 THEN JNull ELSE device_data.v[at][2]
                 called == output_section.t # "null"
                 current_configs ==
                     IF called
                     THEN parse_output_section(output_section, section_name, fault = "parse")
                     ELSE <<>>
                 found == compare_configurations(current_configs, required_configs,
                                                 hostname, fault = "compare")
             IN  [blank EXCEPT
                    !.outcome = "row",
                    !.resolved = IF at = 0 THEN "" ELSE device_data.v[at][1],
                    !.called = called,
                    !.payload = output_section,
                    !.current = current_configs,
                    !.missing = found.missing,
                    !.additional = found.additional,
                    !.rows = <<SummaryRow(section_name, hostname,
                                          found.missing, found.additional)>>,
                    !.issues = found.missing \o found.additional]

\* Whether the iteration reaches the point `fault` at all: the lookup and the
\* comparison run only for a section with templates, parse_output_section only
\* when the lookup found a payload.
FaultReachable(section_name, whitelist_section, device_data, fault) ==
    LET required_configs == parse_whitelist_section(whitelist_section, FALSE)
        at == ResolveIndex(device_data, section_mapping(section_name))
    IN  CASE fault \in {"none", "whitelist"} -> TRUE
          [] fault = "route"   -> required_configs # <<>>
          [] fault = "compare" -> required_configs # <<>> /\ device_data.t = "dict"
          [] fault = "parse"   ->
                /\ required_configs # <<>>
                /\ device_data.t = "dict"
                /\ at # 0
                /\ device_data.v[at][2].t # "null"

(***************************************************************************)
(* parse_whitelist_manual: the line-oriented reader of the whitelist file  *)
(***************************************************************************)

\* line.rstrip('\r\n')
RStripNewline(line) ==
    LET keep == {i \in 1..Len(line) : line[i] \notin {"\r", "\n"}}
    IN  IF keep = {} THEN <<>> ELSE SubSeq(line, 1, SetMax(keep))

\* The literal 'must_include:'.
MustIncludeMarker ==
    <<"m", "u", "s", "t", "_", "i", "n", "c", "l", "u", "d", "e", ":">>

\* current_section: None, or a name.
NoSection == [some |-> FALSE, name |-> <<>>]

SomeSection(name) == [some |-> TRUE, name |-> name]

\* The locals of the loop before the first line.
ManualStart ==
    [current_section |-> NoSection, current_items |-> <<>>, parsed_data |-> <<>>]

\* parsed_data[name] = {'must_include': items}: an existing key keeps its
\* place and takes the new value, a new key goes to the end.
DictSet(parsed_data, name, items) ==
    IF \E i \in 1..Len(parsed_data) : parsed_data[i][1] = name
    THEN [i \in 1..Len(parsed_data) |->
             IF parsed_data[i][1] = name THEN <<name, items>> ELSE parsed_data[i]]
    ELSE Append(parsed_data, <<name, items>>)

\* `if current_section and current_items: parsed_data[current_section] = ...`
Flush(st) ==
    IF /\ st.current_section.some
       /\ st.current_section.name # <<>>
       /\ st.current_items # <<>>
    THEN DictSet(st.parsed_data, st.current_section.name, st.current_items)
    ELSE st.parsed_data

\* `line and not line.startswith(' ') and line.endswith(':')`
IsHeaderLine(line) ==
    line # <<>> /\ ~StartsWith(line, <<" ">>) /\ EndsWith(line, <<":">>)

\* `line and (line.startswith('"') or line.startswith('  '))`
IsItemLine(line) ==
    line # <<>> /\ (StartsWith(line, <<"\"">>) \/ StartsWith(line, <<" ", " ">>))

\* item.startswith('"') and item.endswith('"')
IsQuoted(item) == StartsWith(item, <<"\"">>) /\ EndsWith(item, <<"\"">>)

\* The item of an item line: stripped, then without its quotes, or without
\* its list marker and then without its quotes.
ItemOf(line) ==
    LET item == Strip(line)
    IN  IF IsQuoted(item) THEN SubSeq(item, 2, Len(item) - 1)
        ELSE IF StartsWith(item, <<"-", " ">>)
        THEN LET rest == SubSeq(item, 3, Len(item))
             IN  IF IsQuoted(rest) THEN SubSeq(rest, 2, Len(rest) - 1) ELSE rest
        ELSE item

\* One iteration of `for line in lines`, on the locals st.
ManualLine(st, raw) ==
    LET line == RStripNewline(raw)
    IN  IF IsHeaderLine(line)
        THEN [current_section |-> SomeSection(SubSeq(line, 1, Len(line) - 1)),
              current_items |-> <<>>,
              parsed_data |-> Flush(st)]
        ELSE IF Strip(line) = MustIncludeMarker THEN st
        ELSE IF IsItemLine(line)
        THEN IF ItemOf(line) # <<>>
             THEN [st EXCEPT !.current_items = Append(@, ItemOf(line))]
             ELSE st
        ELSE st

\* The flush after the loop ("Don't forget the last section").
ManualEnd(st) == [st EXCEPT !.parsed_data = Flush(st)]

RECURSIVE ManualFrom(_, _, _)
ManualFrom(st, lines, i) ==
    IF i > Len(lines) THEN ManualEnd(st)
    ELSE ManualFrom(ManualLine(st, lines[i]), lines, i + 1)

\* parse_whitelist_manual on the lines readlines() returns; {} when the file
\* cannot be read.
parse_whitelist_manual(lines, raised) ==
    IF raised THEN <<>> ELSE ManualFrom(ManualStart, lines, 1).parsed_data

(***************************************************************************)
(* create_excel_report: the compliance score of the Statistics sheet       *)
(***************************************************************************)

\* len([s for s in summary_data if s['status'] == status])
CountStatus(summary_data, status) ==
    Cardinality({i \in 1..Len(summary_data) : summary_data[i].status = status})

\* f"{num / den * 100:.0f}" as a number, for 0 <= num <= den, den > 0:
\* rounded to the nearest integer, a tie to the even one.
PercentRounded(num, den) ==
    LET q == (100 * num) \div den
        r == (100 * num) % den
    IN  IF 2 * r < den THEN q
        ELSE IF 2 * r > den THEN q + 1
        ELSE IF q % 2 = 0 THEN q ELSE q + 1

\* compliance_score, as the Statistics sheet shows it (without the % sign).
compliance_score(summary_data) ==
    LET total_sections == Len(summary_data)
        counted == total_sections - CountStatus(summary_data, "to_check")
    IN  IF total_sections > 0
        THEN PercentRounded(IF counted < 0 THEN 0 ELSE counted, total_sections)
        ELSE 100

(***************************************************************************)
(* The texts, documents and whitelists the model is run on                 *)
(***************************************************************************)

LnNtp ==
    <<"n", "t", "p", " ", "1", ".", "2", ".", "3", ".", "4">>

LnNtpMore ==
    <<" ", "N", "T", "P", " ", "1", ".", "2", ".", "3", ".", "4", " ", "x">>

LnVersion ==
    <<"I", "O", "S", " ", "V", "e", "r", "s", "i", "o", "n", " ", "9">>

LnVlan ==
    <<"v", "l", "a", "n", " ", "5">>

TplAddress ==
    <<"n", "t", "p", " ", "[", "x", ".", "x", ".", "x", ".", "x", "]">>

TplNtp ==
    <<"N", "t", "p", " ", "1", ".", "2", ".", "3", ".", "4">>

TplDot ==
    <<"v", "l", ".", "n", " ", "5">>

TplBad ==
    <<"]", "v", "[">>

TplSet ==
    <<"v", "l", "[", "a", "b", "]", "n", " ", "5">>

HostR1 ==
    <<"R", "1">>

TxtLogin ==
    <<"l", "o", "g", "i", "n">>

TxtLineVty ==
    <<"l", "i", "n", "e", " ", "v", "t", "y">>

TxtBanner ==
    <<"!", "b">>

TxtHostR1 ==
    <<"h", "o", "s", "t", "n", "a", "m", "e", " ", "R", "1">>

TxtHostR3 ==
    <<"h", "o", "s", "t", "n", "a", "m", "e", " ", " ", "R", "3", " ", "x">>

TxtRunA ==
    <<"h", "o", "s", "t", "n", "a", "m", "e", " ", "R", "2", "\n", "n", "t", "p", " ", "1", ".", "2", ".", "3", ".", "4">>

TxtRunB ==
    <<"n", "t", "p", " ", "1", ".", "2", ".", "3", ".", "4", "\n", "t", "h", "e", " ", "H", "o", "s", "t", "n", "a", "m", "e", "\t", "R", "2", " ", "x">>

TxtNtpB ==
    <<"n", "t", "p", " ", "1", ".", "2", ".", "3", ".", "4", "\n", "!", "c", "\n">>

TxtStdoutB ==
    <<"l", "o", "g", "i", "n", "\n", "!", "b">>

TxtMustText ==
    <<"#", " ", "c", "\n", "\"", "n", "t", "p", " ", "1", ".", "2", ".", "3", ".", "4", "\"", "\n">>

TxtPadA ==
    <<" ", "a", " ">>

TxtBang ==
    <<" ", "!", "b">>

TxtStrC ==
    <<"a", "\n", " ", "!", "b", "\n", "\n", " ", "c", " ">>

TxtStrD ==
    <<"!", "x", "\r", "\n", "y", " ", "z">>

TxtNtpWord ==
    <<"n", "t", "p">>

TxtAddr ==
    <<"1", ".", "2", ".", "3", ".", "4">>

\* Sections of at most this many whitelist entries are compared in one run.
MaxSections == 2

\* compare_configurations is applied to at most this many current lines ...
MaxLines == 2

\* ... and at most this many templates.
MaxTemplates == 2

\* parse_output_section is applied to list payloads of at most this many items.
MaxItems == 3

\* version holds a second matching line and a number; run_config names
\* another host; vty carries both envelope fields.
DocA ==
    JDict(<< <<"data", JDict(<<
        <<"version", JList(<<JStr(LnVersion), JNum(<<"7">>),
                             JStr(TxtHostR1), JStr(TxtHostR3)>>)>>,
        <<"run_config", JStr(TxtRunA)>>,
        <<"ntp", JList(<<JStr(LnNtpMore), JStr(LnVlan)>>)>>,
        <<"vty", JDict(<<
            <<"stdout_lines", JList(<<JList(<<JStr(TxtLineVty), JStr(TxtBanner)>>),
                                      JList(<<JStr(TxtLogin)>>)>>)>>,
            <<"stdout", JList(<<JStr(LnVlan)>>)>> >>)>> >>)>> >>)

\* No version; the host is named in run_config only; the ntp section is
\* keyed NTP; the vty envelope has an empty stdout_lines beside stdout.
DocB ==
    JDict(<< <<"data", JDict(<<
        <<"run_config", JStr(TxtRunB)>>,
        <<"NTP", JStr(TxtNtpB)>>,
        <<"vty", JDict(<<
            <<"stdout_lines", JList(<<>>)>>,
            <<"stdout", JList(<<JStr(TxtStdoutB)>>)>> >>)>> >>)>> >>)

\* Neither version nor run_config; the vty envelope has stdout only; ntp
\* holds a nested row.
DocC ==
    JDict(<< <<"data", JDict(<<
        <<"vty", JDict(<<
            <<"stdout", JList(<<JStr(TxtStdoutB), JStr(LnVlan)>>)>> >>)>>,
        <<"ntp", JList(<<JList(<<JStr(TxtNtpWord), JStr(TxtAddr)>>),
                         JStr(TxtBanner)>>)>> >>)>> >>)

\* "data": null
DocD == JDict(<< <<"data", JNull>> >>)

\* No "data" at all.
DocE == JDict(<<>>)

Docs == {DocA, DocB, DocC, DocD, DocE}

\* The whitelist entries, in the order the whitelist holds them.
WhitelistPool ==
    << <<"ntp", JDict(<< <<"must_include",
                           JList(<<JStr(<<" ">> \o TplAddress), JStr(<<>>)>>)>> >>)>>,
       <<"dhcp", JDict(<< <<"must_include", JList(<<>>)>> >>)>>,
       <<"vty", JDict(<< <<"must_include", JList(<<JStr(TxtLogin)>>)>> >>)>>,
       <<"VTY", JDict(<< <<"must_include", JList(<<JStr(TxtLogin)>>)>> >>)>>,
       <<"source_interface", JDict(<< <<"must_include", JStr(TxtMustText)>> >>)>> >>

\* The whitelists of at most n entries: the entries of the pool at a set of
\* at most n indices, in the pool's order.
Whitelists(n) ==
    {SelectIdx(WhitelistPool, [i \in 1..Len(WhitelistPool) |-> i \in S], 1) :
        S \in {T \in SUBSET (1..Len(WhitelistPool)) : Cardinality(T) <= n}}

\* Current lines and templates compare_configurations is applied to.
CmpLines == {LnNtp, LnNtpMore, LnVersion, LnVlan}

CmpTemplates == {TplAddress, TplNtp, TplDot, TplBad, TplSet}

\* Items of list payloads, and the other payload shapes.
PayloadItems ==
    {JStr(TxtPadA), JStr(TxtBang), JStr(<<>>), JNum(<<"7">>),
     JList(<<JStr(TxtNtpWord), JNum(<<"0">>), JNull, JStr(<<>>), JNum(<<"5">>)>>),
     JList(<<JStr(<<"!">>), JStr(TxtLogin)>>)}

Payloads ==
    {JList(items) : items \in BoundedSeq(PayloadItems, MaxItems)}
    \cup {JStr(TxtStrC), JStr(TxtStrD), JStr(<<>>), JNull, JNum(<<"7">>)}
    \cup {Get(Get(d, "data"), "vty") : d \in {DocA, DocB, DocC}}
    \cup {JDict(<<>>),
          JDict(<< <<"stdout_lines", JStr(TxtLogin)>>,
                   <<"stdout", JList(<<JStr(TxtStrC)>>)>> >>),
          JDict(<< <<"stdout_lines", JList(<<JStr(TxtLogin),
                                             JList(<<JStr(TxtPadA), JNum(<<"7">>)>>)>>)>> >>),
          JDict(<< <<"stdout", JList(<<JNum(<<"7">>), JStr(TxtStrD)>>)>> >>)}

\* Lines of a whitelist file, without their line terminator: headers (one
\* with an empty name), the marker with and without indentation, items in
\* each form (one whose content is empty), and a blank line.
MlNtp ==
    <<"n", "t", "p", ":">>

MlVty ==
    <<"v", "t", "y", ":">>

MlColon ==
    <<":">>

MlMarkerIndented ==
    <<" ", " ", "m", "u", "s", "t", "_", "i", "n", "c", "l", "u", "d", "e", ":">>

MlMarker ==
    <<"m", "u", "s", "t", "_", "i", "n", "c", "l", "u", "d", "e", ":">>

MlDashAB ==
    <<" ", " ", "-", " ", "\"", "a", " ", "b", "\"">>

MlQuoteC ==
    <<"\"", "c", "\"">>

MlPlainD ==
    <<" ", " ", "d">>

MlEmptyQuotes ==
    <<" ", " ", "\"", "\"">>

MlBlank == <<>>

FileLines ==
    {MlNtp, MlVty, MlColon, MlMarkerIndented, MlMarker, MlDashAB, MlQuoteC,
     MlPlainD, MlEmptyQuotes, MlBlank}

\* The most lines a whitelist file has.
MaxFileLines == 4

\* What readlines() returns for the given lines: each with its "\n", the
\* last one without it when the file does not end in a newline.
ReadLines(content, newline_at_eof) ==
    [k \in 1..Len(content) |->
        IF k < Len(content) \/ newline_at_eof THEN content[k] \o <<"\n">>
        ELSE content[k]]

(***************************************************************************)
(* State                                                                   *)
(***************************************************************************)

VARIABLES
    pc,             \* where the run is
    output_data,    \* process_device_comparison: the output document
    whitelist_data, \* process_device_comparison: the whitelist, in its order
    hostname,       \* hostname, once extracted
    idx,            \* the index of the next whitelist entry of the loop
    summary_data,   \* summary_data
    issues_list,    \* issues_list
    log,            \* history: the SectionStep of every iteration so far
    compliance,     \* the Compliance Score the report shows
    call,           \* the arguments of a direct call of one function
    ret             \* what the direct call returned

vars == <<pc, output_data, whitelist_data, hostname, idx, summary_data,
          issues_list, log, compliance, call, ret>>

\* No run of process_device_comparison.
NoRun ==
    /\ output_data = JNull
    /\ whitelist_data = <<>>
    /\ hostname = <<>>
    /\ idx = 0
    /\ summary_data = <<>>
    /\ issues_list = <<>>
    /\ log = <<>>
    /\ compliance = 0

RunVars == <<output_data, whitelist_data, hostname, idx, summary_data,
             issues_list, log, compliance>>

(***************************************************************************)
(* Spec: one run of process_device_comparison, then the report             *)
(***************************************************************************)

Init ==
    /\ pc = "start"
    /\ output_data \in Docs
    /\ whitelist_data \in Whitelists(MaxSections)
    /\ hostname = <<>>
    /\ idx = 0
    /\ summary_data = <<>>
    /\ issues_list = <<>>
    /\ log = <<>>
    /\ compliance = 0
    /\ call = <<>>
    /\ ret = <<>>

\* output_data.get('data', {})
DeviceData(doc) == IF HasKey(doc, "data") THEN Get(doc, "data") ELSE JDict(<<>>)

\* hostname = extract_hostname_from_output(output_data), before the loop.
Start ==
    /\ pc = "start"
    /\ hostname' = extract_hostname_from_output(output_data)
    /\ idx' = 1
    /\ pc' = "loop"
    /\ UNCHANGED <<output_data, whitelist_data, summary_data, issues_list, log,
                   compliance, call, ret>>

\* One iteration of `for section_name, whitelist_section in whitelist_data.items()`.
ProcessSection ==
    /\ pc = "loop"
    /\ idx <= Len(whitelist_data)
    /\ \E fault \in FaultPoints :
          /\ FaultReachable(whitelist_data[idx][1], whitelist_data[idx][2],
                            DeviceData(output_data), fault)
          /\ LET step == SectionStep(whitelist_data[idx][1], whitelist_data[idx][2],
                                     DeviceData(output_data), hostname, fault)
             IN  /\ summary_data' = summary_data \o step.rows
                 /\ issues_list' = issues_list \o step.issues
                 /\ log' = Append(log, step)
    /\ idx' = idx + 1
    /\ UNCHANGED <<pc, output_data, whitelist_data, hostname, compliance, call, ret>>

\* return summary_data, issues_list
Return ==
    /\ pc = "loop"
    /\ idx > Len(whitelist_data)
    /\ pc' = "returned"
    /\ UNCHANGED <<output_data, whitelist_data, hostname, idx, summary_data,
                   issues_list, log, compliance, call, ret>>

\* main: create_excel_report(summary_data, issues_list, ...) when the summary
\* is not empty.
CreateExcelReport ==
    /\ pc = "returned"
    /\ summary_data # <<>>
    /\ compliance' = compliance_score(summary_data)
    /\ pc' = "reported"
    /\ UNCHANGED <<output_data, whitelist_data, hostname, idx, summary_data,
                   issues_list, log, call, ret>>

Next == Start \/ ProcessSection \/ Return \/ CreateExcelReport

Spec == Init /\ [][Next]_vars

(***************************************************************************)
(* SpecCompare: compare_configurations applied to lists of lines           *)
(***************************************************************************)

InitCompare ==
    /\ pc = "call"
    /\ call \in [output_config    : BoundedSeq(CmpLines, MaxLines),
                 whitelist_config : BoundedSeq(CmpTemplates, MaxTemplates),
                 hostname         : {HostR1}]
    /\ ret = <<>>
    /\ NoRun

\* compare_configurations(output_config, whitelist_config, hostname, _): no
\* operation of the try body raises on lists of str.
CallCompare ==
    /\ pc = "call"
    /\ ret' = compare_configurations(call.output_config, call.whitelist_config,
                                     call.hostname, FALSE)
    /\ pc' = "done"
    /\ UNCHANGED <<call, RunVars>>

SpecCompare == InitCompare /\ [][CallCompare]_vars

(***************************************************************************)
(* SpecParse: parse_output_section applied to every payload shape          *)
(***************************************************************************)

InitParse ==
    /\ pc = "call"
    /\ call \in [section_data : Payloads, section_name : {"vty", "ntp"}]
    /\ ret = <<>>
    /\ NoRun

\* parse_output_section(section_data, section_name): no operation of the try
\* body raises on a JSON payload.
CallParse ==
    /\ pc = "call"
    /\ ret' = parse_output_section(call.section_data, call.section_name, FALSE)
    /\ pc' = "done"
    /\ UNCHANGED <<call, RunVars>>

SpecParse == InitParse /\ [][CallParse]_vars

(***************************************************************************)
(* SpecManual: parse_whitelist_manual, one line of the file at a time      *)
(***************************************************************************)

InitManual ==
    /\ pc = "open"
    /\ call \in [content : BoundedSeq(FileLines, MaxFileLines),
                 newline_at_eof : BOOLEAN]
    /\ (call.content = <<>> \/ call.content[Len(call.content)] = <<>>)
           => call.newline_at_eof
    /\ ret = <<>>
    /\ NoRun

\* open(...) and file.readlines() succeed; the locals get their first values.
ManualOpen ==
    /\ pc = "open"
    /\ ret' = ManualStart
    /\ idx' = 1
    /\ pc' = "lines"
    /\ UNCHANGED <<call, output_data, whitelist_data, hostname, summary_data,
                   issues_list, log, compliance>>

\* open(...) or the read raises: the handler returns {}.
ManualOpenFails ==
    /\ pc = "open"
    /\ ret' = [ManualStart EXCEPT
                  !.parsed_data = parse_whitelist_manual(<<>>, TRUE)]
    /\ pc' = "failed"
    /\ UNCHANGED <<call, RunVars>>

\* One iteration of `for line in lines`.
ManualReadLine ==
    /\ pc = "lines"
    /\ idx <= Len(call.content)
    /\ LET raw == ReadLines(call.content, call.newline_at_eof)[idx]
       IN  /\ ret' = ManualLine(ret, raw)
           /\ log' = Append(log, [line |-> RStripNewline(raw), before |-> ret,
                                  after |-> ManualLine(ret, raw)])
    /\ idx' = idx + 1
    /\ UNCHANGED <<pc, call, output_data, whitelist_data, hostname, summary_data,
                   issues_list, compliance>>

\* The flush after the loop, and the return of parsed_data.
ManualReturn ==
    /\ pc = "lines"
    /\ idx > Len(call.content)
    /\ ret' = ManualEnd(ret)
    /\ pc' = "parsed"
    /\ UNCHANGED <<call, RunVars>>

NextManual == ManualOpen \/ ManualOpenFails \/ ManualReadLine \/ ManualReturn

SpecManual == InitManual /\ [][NextManual]_vars

(***************************************************************************)
(* Properties                                                              *)
(***************************************************************************)

\* The number of occurrences of x in the sequence s.
Count(s, x) == Cardinality({i \in 1..Len(s) : s[i] = x})

\* x occurs in the sequence s.
InSeq(s, x) == \E i \in 1..Len(s) : s[i] = x

\* Template T is literal (not both brackets) and its trimmed, lower-cased
\* text is none of the trimmed, lower-cased lines of output_config.
LiteralAbsent(T, output_config) ==
    /\ ~(HasChar(T, "[") /\ HasChar(T, "]"))
    /\ \A i \in 1..Len(output_config) :
          Strip(LowerStr(output_config[i])) # Strip(LowerStr(T))

\* C3, as stated: after compare_configurations returns, every literal
\* template T that is absent from the current lines has its finding
\* "missing config: T:{hostname}" exactly once in the missing list, also when
\* T is listed more than once; a template with both brackets has no finding.
C3_MissingExactlyOnce ==
    pc = "done" =>
        \A j \in 1..Len(call.whitelist_config) :
            LET T == call.whitelist_config[j]
                n == Count(ret.missing, MissingFinding(T, call.hostname))
            IN  /\ LiteralAbsent(T, call.output_config) => n = 1
                /\ (HasChar(T, "[") /\ HasChar(T, "]")) => n = 0

\* C3, amended: the finding of a literal, absent template T is in the
\* missing list once for each occurrence of T in the whitelist list (exactly
\* once when T is listed once); a template with both brackets has no finding.
C3_MissingOncePerOccurrence ==
    pc = "done" =>
        \A j \in 1..Len(call.whitelist_config) :
            LET T == call.whitelist_config[j]
                n == Count(ret.missing, MissingFinding(T, call.hostname))
            IN  /\ LiteralAbsent(T, call.output_config) =>
                      n = Count(call.whitelist_config, T)
                /\ (HasChar(T, "[") /\ HasChar(T, "]")) => n = 0

\* C3's case: a call returned for a whitelist that lists a literal, absent
\* template twice beside nothing else, and both findings are there.
C3_Witness ==
    /\ pc = "done"
    /\ call.whitelist_config = <<TplDot, TplDot>>
    /\ LiteralAbsent(TplDot, call.output_config)
    /\ ret.missing = <<MissingFinding(TplDot, HostR1), MissingFinding(TplDot, HostR1)>>

\* The pattern of the bracketed template T (trimmed, lower-cased, the five
\* placeholders replaced) compiles and matches a prefix of the trimmed,
\* lower-cased line.
BracketedMatch(T, line) ==
    LET t == Strip(LowerStr(T))
    IN  /\ HasChar(t, "[") /\ HasChar(t, "]")
        /\ ReCompile(PlaceholderPattern(t)) # BadPattern
        /\ ReMatch(ReCompile(PlaceholderPattern(t)), Strip(LowerStr(line)))

\* The trimmed, lower-cased line holds one of the boilerplate substrings.
HoldsBoilerplate(line) ==
    \E i \in 1..Len(skip_patterns) : Contains(LowerStr(line), skip_patterns[i])

\* C4: after compare_configurations returns, a current line matched by the
\* pattern of some bracketed template is not in the extra list; and only
\* bracketed templates act as patterns: a line that is no boilerplate, equals
\* no template and is matched by no bracketed template's pattern is in the
\* extra list, whatever the templates without brackets would match as
\* patterns.
C4_PlaceholderSuppression ==
    pc = "done" =>
        \A i \in 1..Len(call.output_config) :
            LET line    == call.output_config[i]
                matched == \E j \in 1..Len(call.whitelist_config) :
                               BracketedMatch(call.whitelist_config[j], line)
                listed  == \E j \in 1..Len(call.whitelist_config) :
                               Strip(LowerStr(call.whitelist_config[j])) =
                               Strip(LowerStr(line))
                extra   == InSeq(ret.additional, AdditionalFinding(line, call.hostname))
            IN  /\ matched => ~extra
                /\ (~matched /\ ~listed /\ ~HoldsBoilerplate(line)) => extra

\* C4's case: a line that only the address placeholder accounts for (a prefix
\* match: the line goes on after the address) is not reported, while the line
\* a dot of a template without brackets would match is.
C4_Witness ==
    /\ pc = "done"
    /\ call.output_config = <<LnNtpMore, LnVlan>>
    /\ call.whitelist_config = <<TplAddress, TplDot>>
    /\ ret.additional = <<AdditionalFinding(LnVlan, HostR1)>>

\* C5: after compare_configurations returns, a current line whose lower-cased
\* text holds "version", or another boilerplate substring, is not in the
\* extra list, whatever the templates are.
C5_BoilerplateSuppression ==
    pc = "done" =>
        \A i \in 1..Len(call.output_config) :
            HoldsBoilerplate(call.output_config[i]) =>
                ~InSeq(ret.additional,
                       AdditionalFinding(call.output_config[i], call.hostname))

\* C5's case: a line with "Version" inside it, which no template accounts
\* for, next to a line that is reported.
C5_Witness ==
    /\ pc = "done"
    /\ call.output_config = <<LnVersion, LnVlan>>
    /\ call.whitelist_config = <<TplNtp>>
    /\ ret.additional = <<AdditionalFinding(LnVlan, HostR1)>>

\* The history holds one entry per whitelist entry looked at, and the
\* summary and the issue list are what the entries appended.
RECURSIVE RowsOf(_, _)
RowsOf(entries, i) ==
    IF i > Len(entries) THEN <<>> ELSE entries[i].rows \o RowsOf(entries, i + 1)

RECURSIVE IssuesOf(_, _)
IssuesOf(entries, i) ==
    IF i > Len(entries) THEN <<>> ELSE entries[i].issues \o IssuesOf(entries, i + 1)

\* C1, as stated: in every summary row, the status is "error" when a fault
\* occurred while the section was processed; otherwise it is "OK" exactly
\* when the section's missing list and extra list are both empty, and
\* "to_check" when they are not.
C1_StatusConsistency ==
    \A i \in 1..Len(log) :
        \A k \in 1..Len(log[i].rows) :
            LET row == log[i].rows[k]
            IN  /\ InSeq(summary_data, row)
                /\ IF log[i].fault # "none"
                   THEN row.status = "error"
                   ELSE /\ row.status \in {"OK", "to_check"}
                        /\ row.status = "OK" <=>
                              (log[i].missing = <<>> /\ log[i].additional = <<>>)

\* C2, as stated: a fault at any point of a section's processing (resolving
\* the templates, normalizing the payload, comparing) leaves exactly the row
\* with status "error" and both counts 0 for that section, and the loop goes
\* on: at the return every whitelist entry has been looked at.
C2_FaultGivesErrorRow ==
    /\ \A i \in 1..Len(log) :
          log[i].fault # "none" =>
              log[i].rows = <<[section |-> whitelist_data[i][1], hostname |-> hostname,
                               status |-> "error", missing_count |-> 0,
                               additional_count |-> 0]>>
    /\ pc = "returned" => Len(log) = Len(whitelist_data)

\* C6: when process_device_comparison has returned, the summary holds one
\* row for each whitelist entry whose templates were parsed to a non-empty
\* list, in the whitelist's order, and nothing else; an entry with no parsed
\* template appended no row and no finding.
C6_OneRowPerSectionWithTemplates ==
    pc \in {"returned", "reported"} =>
        /\ Len(log) = Len(whitelist_data)
        /\ summary_data = RowsOf(log, 1)
        /\ issues_list = IssuesOf(log, 1)
        /\ LET has == [i \in 1..Len(whitelist_data) |->
                          parse_whitelist_section(whitelist_data[i][2],
                                                  log[i].fault = "whitelist") # <<>>]
               names == [i \in 1..Len(whitelist_data) |-> whitelist_data[i][1]]
           IN  /\ [k \in 1..Len(summary_data) |-> summary_data[k].section]
                     = SelectIdx(names, has, 1)
               /\ \A i \in 1..Len(whitelist_data) :
                     ~has[i] => (log[i].rows = <<>> /\ log[i].issues = <<>>)

\* C6's case: a whitelist whose first entry has no template and whose second
\* has one; the returned summary is the one row of the second.
C6_Witness ==
    /\ pc = "returned"
    /\ Len(whitelist_data) = 2
    /\ whitelist_data[1][1] = "dhcp"
    /\ whitelist_data[2][1] = "vty"
    /\ Len(summary_data) = 1
    /\ summary_data[1].section = "vty"
    /\ issues_list # <<>>

\* C7, as stated: the compliance percentage the report shows is the number
\* of rows with status "OK" over the number of rows, times 100, rounded, and
\* not below 0.
C7_ComplianceIsOkShare ==
    pc = "reported" =>
        /\ compliance >= 0
        /\ compliance = PercentRounded(CountStatus(summary_data, "OK"),
                                       Len(summary_data))

\* The text items of data["version"] when it is a list, else nothing.
VersionTexts(doc) ==
    IF HasKey(doc, "data") /\ Get(doc, "data").t = "dict"
       /\ HasKey(Get(doc, "data"), "version")
       /\ Get(Get(doc, "data"), "version").t = "list"
    THEN LET items == Get(Get(doc, "data"), "version").v
         IN  SelectIdx([i \in 1..Len(items) |-> items[i].v],
                       [i \in 1..Len(items) |-> items[i].t = "str"], 1)
    ELSE <<>>

\* The lines of data["run_config"] when it is a string, else nothing.
RunConfigTexts(doc) ==
    IF HasKey(doc, "data") /\ Get(doc, "data").t = "dict"
       /\ HasKey(Get(doc, "data"), "run_config")
       /\ Get(Get(doc, "data"), "run_config").t = "str"
    THEN Split(Get(Get(doc, "data"), "run_config").v, "\n")
    ELSE <<>>

\* The lines of a sequence that hold a `hostname <token>` match.
HostnameHits(lines) == {i \in 1..Len(lines) : HostnameFound(lines[i])}

\* C8: once extracted, the hostname is the token of the first matching line
\* of the version section; if no version line matches, the token of the first
\* matching line of run_config; if none matches there either (or the sections
\* are absent), "Unknown-Device".  Every summary row carries it and every
\* finding ends with ":" and it.
C8_HostnameOnceForAll ==
    pc # "start" =>
        /\ LET vl == VersionTexts(output_data)
               rl == RunConfigTexts(output_data)
           IN  hostname =
                   IF HostnameHits(vl) # {}
                   THEN HostnameToken(vl[SetMin(HostnameHits(vl))])
                   ELSE IF HostnameHits(rl) # {}
                   THEN HostnameToken(rl[SetMin(HostnameHits(rl))])
                   ELSE UnknownDevice
        /\ \A k \in 1..Len(summary_data) : summary_data[k].hostname = hostname
        /\ \A k \in 1..Len(issues_list) : EndsWith(issues_list[k], <<":">> \o hostname)

\* C8's case: the version section holds two matching lines and run_config
\* a third; the run returned rows and findings, all with the first token.
C8_Witness ==
    /\ pc = "returned"
    /\ Cardinality(HostnameHits(VersionTexts(output_data))) = 2
    /\ HostnameHits(RunConfigTexts(output_data)) # {}
    /\ hostname = HostR1
    /\ Len(summary_data) = 2
    /\ Len(issues_list) = 2

\* The lines a VTY envelope stands for: the groups of stdout_lines flattened
\* in order when that field is a non-empty list, else the strings of stdout
\* split on line breaks; trimmed, without empty lines and banner lines.
EnvelopeLines(envelope) ==
    IF /\ HasKey(envelope, "stdout_lines")
       /\ Get(envelope, "stdout_lines").t = "list"
       /\ Get(envelope, "stdout_lines").v # <<>>
    THEN LET groups == Get(envelope, "stdout_lines").v
         IN  Flatten([g \in 1..Len(groups) |->
                 IF groups[g].t = "list"
                 THEN KeptLines([i \in 1..Len(groups[g].v) |-> PyStr(groups[g].v[i])])
                 ELSE <<>>])
    ELSE IF HasKey(envelope, "stdout") /\ Get(envelope, "stdout").t = "list"
    THEN LET items == Get(envelope, "stdout").v
         IN  Flatten([g \in 1..Len(items) |->
                 IF items[g].t = "str" THEN KeptLines(Split(items[g].v, "\n"))
                 ELSE <<>>])
    ELSE <<>>

\* C10, as stated: whenever a section is resolved to the vty output section
\* and its payload is an envelope, the normalized lines are the envelope's
\* lines, under whatever whitelist name the section was resolved and also
\* when stdout_lines is present but unusable while stdout holds lines.
C10_VtyEnvelopeLines ==
    \A i \in 1..Len(log) :
        (/\ log[i].outcome = "row"
         /\ log[i].fault = "none"
         /\ log[i].resolved = "vty"
         /\ log[i].payload.t = "dict")
        => log[i].current = EnvelopeLines(log[i].payload)

RECURSIVE IsSubsequence(_, _)
\* a is b with some elements left out: the elements of a, in their order,
\* are elements of b, in b's order.
IsSubsequence(a, b) ==
    IF a = <<>> THEN TRUE
    ELSE IF b = <<>> THEN FALSE
    ELSE IF Head(a) = Head(b) THEN IsSubsequence(Tail(a), Tail(b))
    ELSE IsSubsequence(a, Tail(b))

\* The input lines of a payload, in input order: the lines of a string; one
\* line per item of a list (a nested row is its items joined by spaces);
\* for an envelope the lines of the groups of stdout_lines, then the lines
\* of the strings of stdout; none for any other payload.
InputLines(payload) ==
    CASE payload.t = "str" -> Split(payload.v, "\n")
      [] payload.t = "list" ->
           Flatten([i \in 1..Len(payload.v) |->
               CASE payload.v[i].t = "str"  -> <<payload.v[i].v>>
                 [] payload.v[i].t = "list" -> <<JoinNested(payload.v[i].v)>>
                 [] OTHER -> <<>>])
      [] payload.t = "dict" ->
           (IF HasKey(payload, "stdout_lines") /\ Get(payload, "stdout_lines").t = "list"
            THEN LET groups == Get(payload, "stdout_lines").v
                 IN  Flatten([g \in 1..Len(groups) |->
                         IF groups[g].t = "list"
                         THEN [i \in 1..Len(groups[g].v) |-> PyStr(groups[g].v[i])]
                         ELSE <<>>])
            ELSE <<>>)
           \o
           (IF HasKey(payload, "stdout") /\ Get(payload, "stdout").t = "list"
            THEN LET items == Get(payload, "stdout").v
                 IN  Flatten([g \in 1..Len(items) |->
                         IF items[g].t = "str" THEN Split(items[g].v, "\n") ELSE <<>>])
            ELSE <<>>)
      [] OTHER -> <<>>

\* C9: for every payload shape, every line parse_output_section returns is
\* trimmed, not empty and does not start with '!'; the returned lines are
\* trimmed input lines in input order; and a payload of no known shape (null,
\* a number, an envelope under a section that is not the VTY section) gives
\* the empty sequence.
C9_NormalizedLines ==
    pc = "done" =>
        /\ \A k \in 1..Len(ret) :
              /\ ret[k] # <<>>
              /\ ~IsSpace(ret[k][1]) /\ ~IsSpace(ret[k][Len(ret[k])])
              /\ ret[k][1] # "!"
        /\ LET input == InputLines(call.section_data)
           IN  IsSubsequence(ret, [i \in 1..Len(input) |-> Strip(input[i])])
        /\ (\/ call.section_data.t \in {"null", "num"}
            \/ (call.section_data.t = "dict" /\ call.section_name # "vty"))
           => ret = <<>>

\* C9's case: a list payload with a nested row (holding falsy items) between
\* a padded line and a banner line; the call returned the two kept lines in
\* input order.
C9_Witness ==
    /\ pc = "done"
    /\ call.section_data.t = "list"
    /\ Len(call.section_data.v) = 3
    /\ call.section_data.v[1] = JStr(TxtPadA)
    /\ call.section_data.v[2].t = "list"
    /\ call.section_data.v[3] = JStr(TxtBang)
    /\ ret = << <<"a">>, <<"n", "t", "p", " ", "5">> >>


\* What the iteration for whitelist entry i appends to the issue list when
\* nothing faults: its missing findings, then its extra findings.
SectionFindings(i) ==
    LET step == SectionStep(whitelist_data[i][1], whitelist_data[i][2],
                            DeviceData(output_data), hostname, "none")
    IN  step.missing \o step.additional

\* The findings of the entries from i on that were processed without a fault.
RECURSIVE NonFaultingFindings(_)
NonFaultingFindings(i) ==
    IF i > Len(log) THEN <<>>
    ELSE (IF log[i].fault = "none" THEN SectionFindings(i) ELSE <<>>)
             \o NonFaultingFindings(i + 1)

\* The sum of missing_count and additional_count over the rows from k on.
RECURSIVE SumCounts(_, _)
SumCounts(rows, k) ==
    IF k > Len(rows) THEN 0
    ELSE rows[k].missing_count + rows[k].additional_count + SumCounts(rows, k + 1)

\* C11, as stated: at every point of the run the issue list is the
\* concatenation, in processing order, of the findings of the sections that
\* were processed without a fault, each section's missing findings (in
\* template order) before its extra findings (in input-line order); its
\* length is the sum of the two counts over the summary rows; and it is a
\* function of the two input documents alone.
C11_IssuesAreOrderedConcatenation ==
    /\ issues_list = NonFaultingFindings(1)
    /\ Len(issues_list) = SumCounts(summary_data, 1)
    /\ \A i \in 1..Len(log) :
          /\ IsSubsequence(log[i].missing,
                           [k \in 1..Len(log[i].required) |->
                               MissingFinding(log[i].required[k], hostname)])
          /\ IsSubsequence(log[i].additional,
                           [k \in 1..Len(log[i].current) |->
                               AdditionalFinding(log[i].current[k], hostname)])

\* A line that is the marker after any number of leading spaces.
IsMarkerLine(line) ==
    \E n \in 0..Len(line) :
        /\ \A k \in 1..n : line[k] = " "
        /\ SubSeq(line, n + 1, Len(line)) = MustIncludeMarker

\* The lines of a file without its marker lines.
WithoutMarkers(content) ==
    SelectIdx(content, [k \in 1..Len(content) |-> ~IsMarkerLine(content[k])], 1)

\* C12, as stated: the iteration for a line that is the marker
\* `must_include:`, indented or not, leaves the current section name, the
\* items accumulated so far and the sections stored so far as they were; so
\* the result is that of the same file without its marker lines.
C12_MarkerLineIgnored ==
    /\ pc \in {"lines", "parsed"} =>
          \A i \in 1..Len(log) :
              IsMarkerLine(log[i].line) => log[i].after = log[i].before
    /\ pc = "parsed" =>
          ret.parsed_data =
              parse_whitelist_manual(
                  ReadLines(WithoutMarkers(call.content), TRUE), FALSE)

\* The positions of the section headers of a file.
HeaderPositions(content) == {h \in 1..Len(content) : IsHeaderLine(content[h])}

\* The position of the next header after h, or one past the end of the file.
BlockEnd(content, h) ==
    LET later == {k \in HeaderPositions(content) : k > h}
    IN  IF later = {} THEN Len(content) + 1 ELSE SetMin(later)

\* The items of the item lines between header h and the next header or the
\* end of the file, in order: the lines the reader takes as items (not the
\* marker, not a line whose content is empty), stripped.
BlockItems(content, h) ==
    LET isItem == [k \in 1..Len(content) |->
                      /\ h < k
                      /\ k < BlockEnd(content, h)
                      /\ ~IsMarkerLine(content[k])
                      /\ IsItemLine(content[k])
                      /\ ItemOf(content[k]) # <<>>]
    IN  SelectIdx([k \in 1..Len(content) |-> ItemOf(content[k])], isItem, 1)

\* C13, as stated: when parse_whitelist_manual returns, every header line
\* that is followed by at least one item line before the next header or the
\* end of the file maps, under its name, to exactly those items in order.
C13_EveryHeaderKeepsItsItems ==
    pc = "parsed" =>
        \A h \in HeaderPositions(call.content) :
            BlockItems(call.content, h) # <<>> =>
                InSeq(ret.parsed_data,
                      <<SubSeq(call.content[h], 1, Len(call.content[h]) - 1),
                        BlockItems(call.content, h)>>)

=============================================================================
